---- MODULE Spec2Model ----
(***************************************************************************)
(* Model of Autoencoder_Models.ipynb: the layer graph of the convolutional *)
(* autoencoder, the per-category training loop, the pooled run, the Keras  *)
(* EarlyStopping callback driven by fit, and the artifacts written.        *)
(***************************************************************************)
EXTENDS Integers, Sequences, FiniteSets, TLC

VARIABLES
    pc,             \* position in the notebook (cells run top to bottom)
    i,              \* loop variable of "for i in range(1)"
    k,              \* number of category files loaded by the pooled cell
    run,            \* "loop" or "pool": which cell's fit is meant
    autoencoder,    \* the global name autoencoder (a model, or unbound)
    encoder,        \* the global name encoder (a model, or unbound)
    features,       \* the global name features (a batch; << >> when unbound)
    parts,          \* dress_features .. bag_features of the pooled cell
    W,              \* weight store: weight-set id -> [init, passes]
    nextId,         \* next fresh weight-set id (a new random initialisation)
    early_stopping, \* the one EarlyStopping object: wait, stopped_epoch, best
    epoch,          \* passes executed by the current fit
    artifacts,      \* files written by save: name -> saved weights
    failed,         \* the step whose exception ended the run (NoFailure when none)
    files,          \* environment: the category files' contents
    freeRuns,       \* environment: runs whose validation loss is unconstrained
    traj,           \* environment: validation-loss trajectory of the current fit
    minSeen,        \* history: least validation loss of the current fit
    stall,          \* history: consecutive passes without a new least loss
    bestEpoch,      \* history: pass at which minSeen was first reported
    layer,          \* forward pass: number of layers applied
    shape           \* forward pass: shape of the tensor after `layer` layers

vars == <<pc, i, k, run, autoencoder, encoder, features, parts, W, nextId,
          early_stopping, epoch, artifacts, failed, files, freeRuns, traj,
          minSeen, stall, bestEpoch, layer, shape>>

pipeVars == <<pc, i, k, run, autoencoder, encoder, features, parts, W, nextId,
              early_stopping, epoch, artifacts, failed, files, freeRuns, traj,
              minSeen, stall, bestEpoch>>

archVars == <<layer, shape>>

(***************************************************************************)
(* Bounds of the model and constants of the program.                       *)
(***************************************************************************)
MaxCount == 2       \* a category file holds 1 or MaxCount samples
MaxBatch == 4       \* batch sizes pushed through the layer graph: 1..MaxBatch
MaxPlateau == 5     \* constrained trajectories improve up to this pass
LossSpread == 1     \* number of distinct "worse" loss values

Epochs == 400       \* fit(..., epochs=400)
Patience == 10      \* EarlyStopping(patience=10)
MinDelta == 0       \* EarlyStopping(min_delta=0)
LoopRange == 1      \* for i in range(1)
Scale == 255        \* features/255
Channels == 3       \* Input(shape=(3,64,64))
Side == 64          \* Input(shape=(3,64,64))

item == <<"dress", "top", "pullover", "outerwear", "bottom", "shoe", "bag">>

NumItems == Len(item)

(***************************************************************************)
(* The layer graph (channels first).                                       *)
(***************************************************************************)
Conv(f, ks, act) == [type |-> "conv", filters |-> f, size |-> ks, act |-> act]
Pool(p) == [type |-> "pool", filters |-> 0, size |-> p, act |-> "none"]
Up(u) == [type |-> "up", filters |-> 0, size |-> u, act |-> "none"]

EncoderLayers ==
    << Conv(496, 3, "relu"), Pool(2), Conv(248, 3, "relu"), Pool(2),
       Conv(124, 3, "relu"), Pool(2), Conv(64, 3, "relu"), Pool(2),
       Conv(32, 3, "relu"), Pool(2), Conv(16, 3, "relu"), Pool(2),
       Conv(16, 3, "relu"), Pool(2) >>

\* variant: up6 = UpSampling2D((2, 2))
DecoderLayersDoubling ==
    << Conv(16, 3, "relu"), Up(2), Conv(16, 3, "relu"), Up(2),
       Conv(32, 3, "relu"), Up(2), Conv(64, 3, "relu"), Up(2),
       Conv(124, 3, "relu"), Up(2), Conv(248, 3, "relu"), Up(2),
       Conv(496, 3, "relu"), Up(2) >>

DecoderLayers ==
    << Conv(16, 3, "relu"), Up(2), Conv(16, 3, "relu"), Up(2),
       Conv(32, 3, "relu"), Up(2), Conv(64, 3, "relu"), Up(2),
       Conv(124, 3, "relu"), Up(2), Conv(248, 3, "relu"), Up(1),
       Conv(496, 3, "relu"), Up(2) >>

OutputLayer == Conv(3, 5, "sigmoid")

\* autoencoder = Model(input_layer, decoded)
AutoencoderLayers == EncoderLayers \o DecoderLayers \o <<OutputLayer>>

NumLayers == Len(AutoencoderLayers)

\* padding='same', stride 1: the spatial size is kept
ConvOut(s) == s

\* variant: padding='valid', floor(s / p)
PoolOutValid(s, p) == s \div p

\* MaxPooling2D(pool_size=(p,p), padding='same'): ceil(s / p)
PoolOut(s, p) == (s + p - 1) \div p

\* UpSampling2D((u,u)): every row and column repeated u times
UpOut(s, u) == s * u

\* output shape of one layer applied to a tensor of shape <<n, c, h, w>>
LayerOut(l, sh) ==
    CASE l.type = "conv" -> <<sh[1], l.filters, ConvOut(sh[3]), ConvOut(sh[4])>>
      [] l.type = "pool" -> <<sh[1], sh[2], PoolOut(sh[3], l.size), PoolOut(sh[4], l.size)>>
      [] l.type = "up" -> <<sh[1], sh[2], UpOut(sh[3], l.size), UpOut(sh[4], l.size)>>

InputShape(n) == <<n, Channels, Side, Side>>

\* encoded = Flatten(name = 'encoded')(pool7)
FlattenOut(sh) == <<sh[1], sh[2] * sh[3] * sh[4]>>

(***************************************************************************)
(* Data: a batch is a sequence of samples; a sample carries its category,  *)
(* its shape and one pixel value num/den (true division keeps fractions).  *)
(***************************************************************************)
RawValues == {0, Scale}

Sample(c, r) == [cat |-> c, shape |-> <<Channels, Side, Side>>, num |-> r, den |-> 1]

\* pickle.load of '../small_image_vectors/<c>.pkl'
FileBatch(c) == [n \in 1..files.count[c] |-> Sample(c, files.raw)]

\* variant: the division left out
DivideIdentity(b, d) == b

\* b / d, elementwise
Divide(b, d) == [n \in 1..Len(b) |-> [b[n] EXCEPT !.den = @ * d]]

\* variant: bag_features left out of the tuple
ConcatenateWithoutBag(p) ==
    p["dress"] \o p["top"] \o p["pullover"] \o p["outerwear"] \o p["bottom"] \o p["shoe"]

\* np.concatenate((dress_features, ..., bag_features), axis=0)
Concatenate(p) ==
    p["dress"] \o p["top"] \o p["pullover"] \o p["outerwear"] \o p["bottom"]
        \o p["shoe"] \o p["bag"]

Categories == {item[n] : n \in 1..NumItems}

Unbound == << >>

NoParts == [c \in Categories |-> Unbound]

(***************************************************************************)
(* Models and weights.  A model names the weight sets of its layers; W     *)
(* holds their values: which random initialisation, and how many training  *)
(* passes have updated it.                                                 *)
(***************************************************************************)
NoId == 0 - 1

NoModel == [kind |-> "none", enc |-> NoId, dec |-> NoId, stop_training |-> FALSE]

NoWeights == [init |-> NoId, passes |-> 0]

FreshWeights(id) == [init |-> id, passes |-> 0]

\* model_from_json: a new model of the architecture, newly initialised
ModelFromJson(json, id) ==
    IF json = "autoencoder"
    THEN [kind |-> "autoencoder", enc |-> id, dec |-> id + 1, stop_training |-> FALSE]
    ELSE [kind |-> "encoder", enc |-> id, dec |-> NoId, stop_training |-> FALSE]

\* weight sets a model refers to
Refs(m) == {m.enc, m.dec} \ {NoId}

\* one pass of fit over the data updates every layer of the fitted model
TrainPass(w, m) == [id \in DOMAIN w |-> IF id \in Refs(m)
                                        THEN [w[id] EXCEPT !.passes = @ + 1]
                                        ELSE w[id]]

\* Model.save: architecture and current weights
Saved(w, m) ==
    [arch |-> m.kind,
     enc |-> w[m.enc],
     dec |-> IF m.dec = NoId THEN NoWeights ELSE w[m.dec]]

AutoencoderName == IF run = "loop" THEN item[i + 1] \o "_model.h5" ELSE "all_model.h5"

EncoderName ==
    IF run = "loop" THEN item[i + 1] \o "embedding_model.h5" ELSE "all_embedding_model.h5"

Write(name, content) == (name :> content) @@ artifacts

(***************************************************************************)
(* keras.callbacks.EarlyStopping(monitor='val_loss', min_delta=0,          *)
(* patience=10, mode='auto'), as fit drives it.                            *)
(***************************************************************************)
Inf == Epochs + LossSpread + 1

\* variant: np.less_equal
MonitorOpLessEqual(a, b) == a <= b

\* mode='auto' with monitor 'val_loss': np.less
MonitorOp(a, b) == a < b

\* variant: a callback that keeps its state from the fit before
OnTrainBeginKeep(es) == es

\* on_train_begin: the callback object may be reused
OnTrainBegin(es) == [wait |-> 0, stopped_epoch |-> 0, best |-> Inf]

\* on_epoch_end(ep, logs): the new callback state and model.stop_training
OnEpochEnd(es, ep, current) ==
    IF MonitorOp(current + MinDelta, es.best)
    THEN [es |-> [es EXCEPT !.best = current, !.wait = 0], stop |-> FALSE]
    ELSE IF es.wait + 1 >= Patience
         THEN [es |-> [es EXCEPT !.wait = @ + 1, !.stopped_epoch = ep], stop |-> TRUE]
         ELSE [es |-> [es EXCEPT !.wait = @ + 1], stop |-> FALSE]

\* variant: restore_best_weights=True
RestoreBestWeightsOn == TRUE

\* EarlyStopping is built without restore_best_weights
RestoreBestWeights == FALSE

\* weights the model holds when the callback stops training
OnStop(w, m, best) ==
    IF RestoreBestWeights
    THEN [id \in DOMAIN w |-> IF id \in Refs(m) THEN [w[id] EXCEPT !.passes = best]
                                                ELSE w[id]]
    ELSE w

(***************************************************************************)
(* Environment of a fit: the validation loss reported after each pass.     *)
(* A new least value at pass e is Epochs - e; a value that is no           *)
(* improvement is the least value so far (a tie) or a larger one.          *)
(***************************************************************************)
FreeTraj == [free |-> TRUE, period |-> 1, plateau |-> Epochs, tie |-> FALSE]

ShortTrajs == {[free |-> FALSE, period |-> 1, plateau |-> MaxPlateau, tie |-> b] :
                  b \in BOOLEAN}

Trajectories(r) == IF r \in freeRuns THEN {FreeTraj} ELSE ShortTrajs

ValLossChoices(e, m, t) ==
    IF t.free
    THEN {Epochs - e} \cup (IF m < Inf THEN {m} ELSE {})
             \cup {Epochs + d : d \in 1..LossSpread}
    ELSE {IF e <= t.plateau /\ (e - 1) % t.period = 0 THEN Epochs - e
          ELSE IF t.tie /\ m < Inf THEN m ELSE Epochs + 1}

(***************************************************************************)
(* Initial state: the cells up to "early_stopping = EarlyStopping(...)"    *)
(* have run.  autoencoder and encoder are the two models built from one    *)
(* layer graph, so they name the same encoder weights.                     *)
(***************************************************************************)
NoFailure == [step |-> "", cat |-> ""]

DefaultFiles == [count |-> [c \in Categories |-> 1], raw |-> Scale]

FileChoices == {[count |-> cnt, raw |-> r] :
                   cnt \in [Categories -> {1, MaxCount}], r \in RawValues}

PipeInit(f, fr) ==
    /\ pc = "loop_head"
    /\ i = 0
    /\ k = 0
    /\ run = "loop"
    /\ autoencoder = ModelFromJson("autoencoder", 0)
    /\ encoder = ModelFromJson("encoder", 0)
    /\ features = Unbound
    /\ parts = NoParts
    /\ W = [id \in 0..1 |-> FreshWeights(id)]
    /\ nextId = 2
    /\ early_stopping = [wait |-> 0, stopped_epoch |-> 0, best |-> Inf]
    /\ epoch = 0
    /\ artifacts = << >>
    /\ failed = NoFailure
    /\ files = f
    /\ freeRuns = fr
    /\ traj = FreeTraj
    /\ minSeen = Inf
    /\ stall = 0
    /\ bestEpoch = 0

ArchIdle ==
    /\ layer = 0
    /\ shape = InputShape(1)

\* every comparison outcome of the validation loss, in one of the two fits
Init ==
    /\ \E fr \in {{"loop"}, {"pool"}} : PipeInit(DefaultFiles, fr)
    /\ ArchIdle

\* every content of the category files
InitData ==
    /\ \E f \in FileChoices : PipeInit(f, {})
    /\ ArchIdle

(***************************************************************************)
(* The per-category loop.                                                  *)
(***************************************************************************)
\* for i in range(1): next iteration, or on to the pooled cells
LoopHead ==
    /\ pc = "loop_head"
    /\ IF i < LoopRange
       THEN /\ pc' = "models"
            /\ UNCHANGED <<run, k>>
       ELSE /\ pc' = "pool_load"
            /\ run' = "pool"
            /\ k' = 0
    /\ UNCHANGED <<layer, shape, i, autoencoder, encoder, features, parts, W, nextId,
                   early_stopping, epoch, artifacts, failed, files, freeRuns,
                   traj, minSeen, stall, bestEpoch>>

\* autoencoder = model_from_json(json_autoencoder)
\* encoder = model_from_json(json_encoder)
MakeModels ==
    /\ pc = "models"
    /\ autoencoder' = ModelFromJson("autoencoder", nextId)
    /\ encoder' = ModelFromJson("encoder", nextId + 2)
    /\ W' = [id \in nextId..(nextId + 2) |-> FreshWeights(id)]
    /\ nextId' = nextId + 3
    /\ pc' = IF run = "loop" THEN "load" ELSE "fit_begin"
    /\ UNCHANGED <<layer, shape, i, k, run, features, parts, early_stopping, epoch, artifacts,
                   failed, files, freeRuns, traj, minSeen, stall, bestEpoch>>

\* features = pickle.load(picklefile); features = features/255
LoadCategory ==
    /\ pc = "load"
    /\ features' = Divide(FileBatch(item[i + 1]), Scale)
    /\ pc' = "fit_begin"
    /\ UNCHANGED <<layer, shape, i, k, run, autoencoder, encoder, parts, W, nextId,
                   early_stopping, epoch, artifacts, failed, files, freeRuns,
                   traj, minSeen, stall, bestEpoch>>

\* variant: the exception caught and the iteration skipped
AbortContinue(step, cat) ==
    /\ pc' = "release"
    /\ failed' = [step |-> step, cat |-> cat]
    /\ UNCHANGED <<layer, shape, i, k, run, autoencoder, encoder, features, parts, W,
                   nextId, early_stopping, epoch, artifacts, files, freeRuns, traj,
                   minSeen, stall, bestEpoch>>

\* an exception nothing catches ends the run
Abort(step, cat) ==
    /\ pc' = "aborted"
    /\ failed' = [step |-> step, cat |-> cat]
    /\ UNCHANGED <<layer, shape, i, k, run, autoencoder, encoder, features, parts, W, nextId,
                   early_stopping, epoch, artifacts, files, freeRuns, traj,
                   minSeen, stall, bestEpoch>>

\* open or pickle.load raises: the file is missing or malformed
LoadFails ==
    /\ pc = "load"
    /\ Abort("load", item[i + 1])

RunName == IF run = "loop" THEN item[i + 1] ELSE "all"

\* compile, then fit enters: on_train_begin, stop_training = False
FitBegin ==
    /\ pc = "fit_begin"
    /\ \E t \in Trajectories(run) : traj' = t
    /\ early_stopping' = OnTrainBegin(early_stopping)
    /\ autoencoder' = [autoencoder EXCEPT !.stop_training = FALSE]
    /\ epoch' = 0
    /\ minSeen' = Inf
    /\ stall' = 0
    /\ bestEpoch' = 0
    /\ pc' = "fit"
    /\ UNCHANGED <<layer, shape, i, k, run, encoder, features, parts, W, nextId, artifacts,
                   failed, files, freeRuns>>

\* one pass: train on the batches, evaluate val_loss, on_epoch_end
FitEpoch ==
    /\ pc = "fit"
    /\ epoch < Epochs
    /\ ~autoencoder.stop_training
    /\ \E v \in ValLossChoices(epoch + 1, minSeen, traj) :
         LET r == OnEpochEnd(early_stopping, epoch, v)
             improved == v < minSeen
             trained == TrainPass(W, autoencoder)
         IN /\ early_stopping' = r.es
            /\ autoencoder' = [autoencoder EXCEPT !.stop_training = r.stop]
            /\ W' = IF r.stop
                    THEN OnStop(trained, autoencoder, IF improved THEN epoch + 1 ELSE bestEpoch)
                    ELSE trained
            /\ minSeen' = IF improved THEN v ELSE minSeen
            /\ stall' = IF improved THEN 0 ELSE stall + 1
            /\ bestEpoch' = IF improved THEN epoch + 1 ELSE bestEpoch
    /\ epoch' = epoch + 1
    /\ UNCHANGED <<layer, shape, pc, i, k, run, encoder, features, parts, nextId, artifacts,
                   failed, files, freeRuns, traj>>

\* fit returns: the epoch range is exhausted or stop_training is set
FitReturn ==
    /\ pc = "fit"
    /\ epoch = Epochs \/ autoencoder.stop_training
    /\ pc' = "save_autoencoder"
    /\ UNCHANGED <<layer, shape, i, k, run, autoencoder, encoder, features, parts, W, nextId,
                   early_stopping, epoch, artifacts, failed, files, freeRuns,
                   traj, minSeen, stall, bestEpoch>>

\* fit raises: shape mismatch on entry, out of memory at any pass
FitFails ==
    /\ pc \in {"fit_begin", "fit"}
    /\ Abort("fit", RunName)

\* autoencoder.save(autoencoder_name)
SaveAutoencoder ==
    /\ pc = "save_autoencoder"
    /\ artifacts' = Write(AutoencoderName, Saved(W, autoencoder))
    /\ pc' = "save_encoder"
    /\ UNCHANGED <<layer, shape, i, k, run, autoencoder, encoder, features, parts, W, nextId,
                   early_stopping, epoch, failed, files, freeRuns, traj,
                   minSeen, stall, bestEpoch>>

\* encoder.save(encoder_name)
SaveEncoder ==
    /\ pc = "save_encoder"
    /\ artifacts' = Write(EncoderName, Saved(W, encoder))
    /\ pc' = "release"
    /\ UNCHANGED <<layer, shape, i, k, run, autoencoder, encoder, features, parts, W, nextId,
                   early_stopping, epoch, failed, files, freeRuns, traj,
                   minSeen, stall, bestEpoch>>

\* variant: the del left out
DelBatchKeep(b) == b

\* del(features): the name is unbound and the batch freed
DelBatch(b) == Unbound

\* del(autoencoder), del(encoder)
DelModel(m) == NoModel

\* weights no bound model refers to are freed with the model
Collect(w, a, e) == [id \in (Refs(a) \cup Refs(e)) \cap DOMAIN w |-> w[id]]

\* del(features); del(autoencoder); del(encoder)
Release ==
    /\ pc = "release"
    /\ features' = DelBatch(features)
    /\ autoencoder' = DelModel(autoencoder)
    /\ encoder' = DelModel(encoder)
    /\ W' = Collect(W, autoencoder', encoder')
    /\ IF run = "loop"
       THEN /\ i' = i + 1
            /\ pc' = "loop_head"
       ELSE /\ i' = i
            /\ pc' = "done"
    /\ UNCHANGED <<layer, shape, k, run, parts, nextId, early_stopping, epoch, artifacts,
                   failed, files, freeRuns, traj, minSeen, stall, bestEpoch>>

(***************************************************************************)
(* The pooled cells.                                                       *)
(***************************************************************************)
\* <category>_features = pickle.load(picklefile), in the order of the cell
PoolLoad ==
    /\ pc = "pool_load"
    /\ k < NumItems
    /\ parts' = [parts EXCEPT ![item[k + 1]] = FileBatch(item[k + 1])]
    /\ k' = k + 1
    /\ UNCHANGED <<layer, shape, pc, i, run, autoencoder, encoder, features, W, nextId,
                   early_stopping, epoch, artifacts, failed, files, freeRuns,
                   traj, minSeen, stall, bestEpoch>>

PoolLoadFails ==
    /\ pc = "pool_load"
    /\ k < NumItems
    /\ Abort("load", item[k + 1])

\* features = np.concatenate((...), axis=0)
PoolConcatenate ==
    /\ pc = "pool_load"
    /\ k = NumItems
    /\ features' = Concatenate(parts)
    /\ pc' = "pool_del"
    /\ UNCHANGED <<layer, shape, i, k, run, autoencoder, encoder, parts, W, nextId,
                   early_stopping, epoch, artifacts, failed, files, freeRuns,
                   traj, minSeen, stall, bestEpoch>>

\* np.concatenate raises MemoryError
ConcatenateFails ==
    /\ pc = "pool_load"
    /\ k = NumItems
    /\ Abort("concatenate", "all")

\* del(dress_features, ..., bag_features)
PoolDel ==
    /\ pc = "pool_del"
    /\ parts' = [c \in Categories |-> DelBatch(parts[c])]
    /\ pc' = "pool_norm"
    /\ UNCHANGED <<layer, shape, i, k, run, autoencoder, encoder, features, W, nextId,
                   early_stopping, epoch, artifacts, failed, files, freeRuns,
                   traj, minSeen, stall, bestEpoch>>

\* features = features/255
PoolNormalize ==
    /\ pc = "pool_norm"
    /\ features' = Divide(features, Scale)
    /\ pc' = "models"
    /\ UNCHANGED <<layer, shape, i, k, run, autoencoder, encoder, parts, W, nextId,
                   early_stopping, epoch, artifacts, failed, files, freeRuns,
                   traj, minSeen, stall, bestEpoch>>

Next ==
    \/ LoopHead
    \/ MakeModels
    \/ LoadCategory
    \/ LoadFails
    \/ FitBegin
    \/ FitEpoch
    \/ FitReturn
    \/ FitFails
    \/ SaveAutoencoder
    \/ SaveEncoder
    \/ Release
    \/ PoolLoad
    \/ PoolLoadFails
    \/ PoolConcatenate
    \/ ConcatenateFails
    \/ PoolDel
    \/ PoolNormalize

Spec == Init /\ [][Next]_vars

SpecData == InitData /\ [][Next]_vars

(***************************************************************************)
(* A batch pushed through the layer graph of the autoencoder, layer by     *)
(* layer.                                                                  *)
(***************************************************************************)
InitArch ==
    /\ PipeInit(DefaultFiles, {})
    /\ layer = 0
    /\ \E n \in 1..MaxBatch : shape = InputShape(n)

ApplyLayer ==
    /\ layer < NumLayers
    /\ shape' = LayerOut(AutoencoderLayers[layer + 1], shape)
    /\ layer' = layer + 1
    /\ UNCHANGED pipeVars

NextArch == ApplyLayer

SpecArch == InitArch /\ [][NextArch]_vars

(***************************************************************************)
(* Properties.                                                             *)
(***************************************************************************)
ModelFile(n) == n \o "_model.h5"

EmbeddingFile(n) == IF n = "all" THEN "all_embedding_model.h5" ELSE n \o "embedding_model.h5"

RunNames == Categories \cup {"all"}

HasPair(n) == {ModelFile(n), EmbeddingFile(n)} \subseteq DOMAIN artifacts

IndexOf(c) == CHOOSE n \in 1..NumItems : item[n] = c

RECURSIVE SumCounts(_)
SumCounts(n) == IF n = 0 THEN 0 ELSE files.count[item[n]] + SumCounts(n - 1)

RECURSIVE Prod(_, _)
Prod(s, n) == IF n = 0 THEN 1 ELSE s[n] * Prod(s, n - 1)

\* C1: whenever both artifacts of a run are saved, the encoder weights of the
\* saved encoder-only model equal those of the saved autoencoder.
C1_SavedEncoderEqualsAutoencoder ==
    \A n \in RunNames :
        HasPair(n) => artifacts[EmbeddingFile(n)].enc = artifacts[ModelFile(n)].enc

\* C2: a run that completes has written the pair of artifacts of each of the
\* seven categories and the pooled pair.
C2_AllPairsWritten ==
    pc = "done" => \A n \in RunNames : HasPair(n)

\* C3: pushed through the seven 'same'-padded poolings a 64x64 input is 1x1
\* with 16 channels, and the output of the full network has the shape of
\* its input, (N,3,64,64).
C3_OutputShapeIsInputShape ==
    /\ shape[1] \in 1..MaxBatch
    /\ layer = Len(EncoderLayers) => shape = <<shape[1], 16, 1, 1>>
    /\ layer = NumLayers => shape = InputShape(shape[1])

C3_Witness == layer = NumLayers /\ shape[1] = MaxBatch /\ shape[3] = Side

\* C4: a fit executes at most 400 passes, and once the validation loss has
\* not gone strictly below its least value for 10 passes in a row,
\* stop_training is set and no further pass is executed.
C4_FitHalts ==
    [][/\ epoch' <= Epochs
       /\ epoch' > epoch => (epoch < Epochs /\ stall < Patience
                               /\ ~autoencoder.stop_training)
       /\ (pc' = "fit" /\ stall' >= Patience) => autoencoder'.stop_training
       /\ (pc' = "fit" /\ autoencoder'.stop_training) => stall' = Patience]_vars

C4_Witness ==
    /\ pc = "save_autoencoder"
    /\ autoencoder.stop_training
    /\ stall = Patience
    /\ epoch > Patience + 1
    /\ epoch < Epochs

C6_FailureAborts ==
    [][/\ failed = NoFailure
       /\ failed' # NoFailure =>
            /\ pc' = "aborted"
            /\ artifacts' = artifacts
            /\ run' = "loop" => /\ ~HasPair("all")'
                                /\ ModelFile(failed'.cat) \notin DOMAIN artifacts'
                                /\ EmbeddingFile(failed'.cat) \notin DOMAIN artifacts'
                                /\ parts' = NoParts
            /\ run' = "pool" => /\ ModelFile("all") \notin DOMAIN artifacts'
                                /\ EmbeddingFile("all") \notin DOMAIN artifacts']_vars

C6_Witness ==
    /\ pc = "aborted"
    /\ failed = [step |-> "fit", cat |-> "dress"]
    /\ epoch > 0
    /\ artifacts = << >>

\* C7: during every fit the callback's wait and best are those of this
\* fit's own validation losses, stop_training is set only by this fit, and
\* the fitted weights are new ones that only this fit has trained.
C7_RunsAreIndependent ==
    pc = "fit" =>
        /\ early_stopping.wait = stall
        /\ early_stopping.best = minSeen
        /\ autoencoder.stop_training = (stall >= Patience)
        /\ \A id \in Refs(autoencoder) : W[id] = [init |-> id, passes |-> epoch]
        /\ \A id \in Refs(encoder) : W[id] = FreshWeights(id)
        /\ \A name \in DOMAIN artifacts :
               {artifacts[name].enc.init, artifacts[name].dec.init}
                   \cap (Refs(autoencoder) \cup Refs(encoder)) = {}

C7_Witness ==
    /\ pc = "fit"
    /\ run = "pool"
    /\ epoch = 1
    /\ HasPair("dress")
    /\ artifacts[ModelFile("dress")].enc.passes < Epochs

DecoderDepths == <<16, 16, 32, 64, 124, 248, 496>>

DecoderStage(j) == Len(EncoderLayers) + 2 * j

\* C8, as stated: after the j-th decoder stage the depth is the j-th of
\* 16, 16, 32, 64, 124, 248, 496 and the resolution has doubled j times, and
\* the decoder reproduces 64x64.
C8_EveryStageDoubles ==
    /\ \A j \in 1..7 : layer = DecoderStage(j) =>
           /\ shape[2] = DecoderDepths[j]
           /\ shape[3] = Prod(<<2, 2, 2, 2, 2, 2, 2>>, j)
           /\ shape[4] = Prod(<<2, 2, 2, 2, 2, 2, 2>>, j)
    /\ layer = NumLayers => (shape[3] = Side /\ shape[4] = Side)

\* C8, amended: the stages have the depths 16, 16, 32, 64, 124, 248, 496; all
\* but the sixth double the resolution, the sixth keeps it, and the decoder
\* reproduces 64x64.
C8_SixStagesDouble ==
    /\ \A j \in 1..7 : layer = DecoderStage(j) =>
           /\ shape[2] = DecoderDepths[j]
           /\ shape[3] = Prod(<<2, 2, 2, 2, 2, 1, 2>>, j)
           /\ shape[4] = Prod(<<2, 2, 2, 2, 2, 1, 2>>, j)
    /\ layer = NumLayers => (shape[3] = Side /\ shape[4] = Side)

C8_Witness == layer = DecoderStage(7) /\ shape[2] = 496 /\ shape[3] = Side

\* C9: the saved autoencoder holds the weights of the last executed pass;
\* when patience stopped the fit, that pass is 10 passes after the pass with
\* the least validation loss.
C9_LastWeightsSaved ==
    pc \in {"save_encoder", "release"} =>
        /\ artifacts[AutoencoderName].enc.passes = epoch
        /\ artifacts[AutoencoderName].dec.passes = epoch
        /\ autoencoder.stop_training =>
               (bestEpoch >= 1 /\ epoch = bestEpoch + Patience)

C9_Witness ==
    /\ pc = "save_encoder"
    /\ autoencoder.stop_training
    /\ bestEpoch > 1
    /\ artifacts[AutoencoderName].enc.passes = bestEpoch + Patience

\* C10: the pooled batch has the sum of the seven counts as its length, its
\* samples in category order with their shape, raw values until it is
\* concatenated and each value divided by 255 once afterwards, within [0,1].
C10_PooledBatch ==
    /\ (run = "pool" /\ pc \in {"pool_load", "pool_del"}) =>
           \A c \in Categories : \A n \in 1..Len(parts[c]) :
               parts[c][n] = Sample(c, files.raw)
    /\ (run = "pool" /\ pc \in {"pool_del", "pool_norm"}) =>
           \A n \in 1..Len(features) : features[n].den = 1
    /\ (run = "pool" /\ pc \in {"pool_del", "pool_norm", "models", "fit_begin", "fit",
                                "save_autoencoder", "save_encoder", "release"}) =>
           /\ Len(features) = SumCounts(NumItems)
           /\ \A c \in Categories :
                  Cardinality({n \in 1..Len(features) : features[n].cat = c})
                      = files.count[c]
           /\ \A a, b \in 1..Len(features) :
                  a < b => IndexOf(features[a].cat) <= IndexOf(features[b].cat)
           /\ \A n \in 1..Len(features) :
                  /\ features[n].shape = <<Channels, Side, Side>>
                  /\ features[n].num = files.raw
    /\ (run = "pool" /\ pc \in {"models", "fit_begin", "fit", "save_autoencoder",
                                "save_encoder", "release"}) =>
           \A n \in 1..Len(features) :
               /\ features[n].den = Scale
               /\ 0 <= features[n].num
               /\ features[n].num <= features[n].den

C10_Witness ==
    /\ pc = "fit"
    /\ run = "pool"
    /\ epoch = 1
    /\ Len(features) > NumItems + 1
    /\ files.count["dress"] = 1
    /\ features[Len(features)].num = Scale

====
